---- MODULE Spec2Model ----
(***************************************************************************)
(* Model of keystore.py: a client (DynamoDbDatabase / DynamoDbTable /      *)
(* Keystore) over a DynamoDB service.  Strings the code manipulates (table *)
(* names, host names, date strings, timestamps) are sequences of           *)
(* one-character strings, so that endswith, lower, concatenation, strptime *)
(* and isoformat are computed and the service's byte-order comparison of   *)
(* sort keys is a comparison of the formatted strings.  Keys and values    *)
(* are opaque strings: the code only passes them on.                       *)
(* The service is taken to be strongly consistent: a created table is      *)
(* usable at once and a deleted one is gone at once.                       *)
(***************************************************************************)
EXTENDS Integers, Sequences, FiniteSets, TLC

VARIABLES suffix, tables, now, resolved

vars == <<suffix, tables, now, resolved>>

-----------------------------------------------------------------------------
(* Bounds of the model.                                                    *)

\* Longest CSV file (rows) importFromCsv is given.
MaxRows == 2
\* Most items the store holds in total.
MaxItems == 2
\* Longest lead of a table name get_complete_name is applied to.
MaxLead == 2
\* Half-hour steps the wall clock advances from ClockStart.
MaxTicks == 1

-----------------------------------------------------------------------------
(* Strings.                                                                *)

Min(S) == CHOOSE x \in S : \A y \in S : x <= y

\* Python's `needle in haystack` on strings.
Contains(haystack, needle) ==
    \E i \in 1..(Len(haystack) + 1) :
        /\ i + Len(needle) - 1 <= Len(haystack)
        /\ SubSeq(haystack, i, i + Len(needle) - 1) = needle

\* Mutant of endswith: the suffix anywhere in the name.
endswith_anywhere(s, suf) == Contains(s, suf)

\* Python str.endswith: the tail of s of the argument's length equals it.
endswith(s, suf) ==
    /\ Len(suf) <= Len(s)
    /\ SubSeq(s, Len(s) - Len(suf) + 1, Len(s)) = suf

LowerChar(c) ==
    CASE c = "A" -> "a"
      [] c = "D" -> "d"
      [] c = "E" -> "e"
      [] c = "V" -> "v"
      [] OTHER -> c

\* Python str.lower.
lower(s) == [i \in 1..Len(s) |-> LowerChar(s[i])]

\* Code point of a character of a timestamp (UTF-8 byte, all are ASCII).
Ord(c) ==
    CASE c = "-" -> 45
      [] c = "." -> 46
      [] c = "0" -> 48
      [] c = "1" -> 49
      [] c = "2" -> 50
      [] c = "3" -> 51
      [] c = "4" -> 52
      [] c = "5" -> 53
      [] c = "6" -> 54
      [] c = "7" -> 55
      [] c = "8" -> 56
      [] c = "9" -> 57
      [] c = ":" -> 58
      [] c = "T" -> 84

\* The service orders string sort keys by their bytes: s <= t.
BytesLeq(s, t) ==
    LET n == IF Len(s) < Len(t) THEN Len(s) ELSE Len(t)
        diff == {i \in 1..n : s[i] # t[i]}
    IN  IF diff = {} THEN Len(s) <= Len(t)
        ELSE Ord(s[Min(diff)]) < Ord(t[Min(diff)])

DigitChars == <<"0", "1", "2", "3", "4", "5", "6", "7", "8", "9">>

IsDigit(c) == \E d \in 1..10 : DigitChars[d] = c

DigitVal(c) == (CHOOSE d \in 1..10 : DigitChars[d] = c) - 1

RECURSIVE Pad(_, _)
\* n printed in w decimal digits, zero padded (format %0wd).
Pad(n, w) == IF w = 0 THEN <<>> ELSE Pad(n \div 10, w - 1) \o <<DigitChars[(n % 10) + 1]>>

RECURSIVE Num(_)
\* int(s) of a string of digits, which a space may lead.
Num(s) ==
    IF s = <<>> THEN 0
    ELSE IF s[Len(s)] = " " THEN Num(SubSeq(s, 1, Len(s) - 1))
    ELSE 10 * Num(SubSeq(s, 1, Len(s) - 1)) + DigitVal(s[Len(s)])

-----------------------------------------------------------------------------
(* Dates: datetime.strptime(s, '%Y%m%d') and datetime.isoformat.           *)

IsLeap(y) == (y % 4 = 0 /\ y % 100 # 0) \/ y % 400 = 0

DaysInMonth(y, m) ==
    IF m = 2 THEN (IF IsLeap(y) THEN 29 ELSE 28)
    ELSE IF m \in {4, 6, 9, 11} THEN 30 ELSE 31

\* %m is the regular expression 1[0-2]|0[1-9]|[1-9]: the lengths it can
\* match at position p of s, in the order the alternatives are tried.
MonthLens(s, p) ==
    LET two == /\ p + 1 <= Len(s)
               /\ \/ s[p] = "1" /\ s[p + 1] \in {"0", "1", "2"}
                  \/ s[p] = "0" /\ IsDigit(s[p + 1]) /\ s[p + 1] # "0"
        one == p <= Len(s) /\ IsDigit(s[p]) /\ s[p] # "0"
    IN  (IF two THEN <<2>> ELSE <<>>) \o (IF one THEN <<1>> ELSE <<>>)

\* %d is 3[0-1]|[1-2]\d|0[1-9]|[1-9]| [1-9].
DayLens(s, p) ==
    LET two == /\ p + 1 <= Len(s)
               /\ \/ s[p] = "3" /\ s[p + 1] \in {"0", "1"}
                  \/ s[p] \in {"1", "2"} /\ IsDigit(s[p + 1])
                  \/ s[p] = "0" /\ IsDigit(s[p + 1]) /\ s[p + 1] # "0"
                  \/ s[p] = " " /\ IsDigit(s[p + 1]) /\ s[p + 1] # "0"
        one == p <= Len(s) /\ IsDigit(s[p]) /\ s[p] # "0"
    IN  (IF two THEN <<2>> ELSE <<>>) \o (IF one THEN <<1>> ELSE <<>>)

\* datetime.strptime(s, '%Y%m%d'): the format's regular expression is matched
\* at the start of s (first alternative that lets the whole pattern match),
\* the match must cover all of s, and the fields must make a calendar date.
StrptimeMatch(s) ==
    LET bad == [ok |-> FALSE, year |-> 0, month |-> 0, day |-> 0]
        yok == Len(s) >= 4 /\ \A i \in 1..4 : IsDigit(s[i])
        ms  == MonthLens(s, 5)
        \* <<month length, day length>> of the first successful match
        cand == [i \in 1..Len(ms) |-> DayLens(s, 5 + ms[i])]
        hits == {i \in 1..Len(ms) : cand[i] # <<>>}
    IN  IF ~yok \/ hits = {} THEN bad
        ELSE LET i  == Min(hits)
                 ml == ms[i]
                 dl == cand[i][1]
                 y  == Num(SubSeq(s, 1, 4))
                 m  == Num(SubSeq(s, 5, 4 + ml))
                 d  == Num(SubSeq(s, 5 + ml, 4 + ml + dl))
             IN  IF 4 + ml + dl # Len(s) THEN bad          \* unconverted data remains
                 ELSE IF y < 1 \/ d > DaysInMonth(y, m) THEN bad
                 ELSE [ok |-> TRUE, year |-> y, month |-> m, day |-> d]

\* The date strings the calls are given.
D1104     == <<"2", "0", "2", "3", "1", "1", "0", "4">>
D1105     == <<"2", "0", "2", "3", "1", "1", "0", "5">>
D1106     == <<"2", "0", "2", "3", "1", "1", "0", "6">>
\* Seven characters: strptime reads month 11, day 4.
DShort    == <<"2", "0", "2", "3", "1", "1", "4">>
\* November has 30 days.
DNoSuch   == <<"2", "0", "2", "3", "1", "1", "3", "1">>
DDashed   == <<"2", "0", "2", "3", "-", "1", "1", "-", "0", "5">>

DateStrings == {D1104, D1105, D1106, DShort, DNoSuch, DDashed}

\* strptime on the date strings, worked out once.
StrptimeTable == [s \in DateStrings |-> StrptimeMatch(s)]

strptime(s) == IF s \in DateStrings THEN StrptimeTable[s] ELSE StrptimeMatch(s)

\* str(d.isoformat()) of a naive datetime at midnight.
isoformat_naive(d) ==
    Pad(d.year, 4) \o <<"-">> \o Pad(d.month, 2) \o <<"-">> \o Pad(d.day, 2)
        \o <<"T", "0", "0", ":", "0", "0", ":", "0", "0">>

\* The wall clock: minutes and microseconds since 2023-11-05T00:00:00Z, the
\* day daylight saving time ends in US/Central (at 07:00Z).  The model keeps
\* the clock inside that day, where the local date is 2023-11-05 throughout.
\* Reading n is 06:30Z plus n times (30 minutes and 1 microsecond).
ClockAt(n) == [minute |-> 390 + 30 * n, micro |-> n]

ClockStart == ClockAt(0)

\* pytz.timezone('US/Central').utcoffset at a UTC instant of that day, minutes.
CentralOffset(utc) == IF utc.minute < 420 THEN -300 ELSE -360

\* utc_dt.astimezone(tz=pytz.timezone('US/Central'))
astimezone(utc) ==
    LET off == CentralOffset(utc)
        m   == utc.minute + off
    IN  [year |-> 2023, month |-> 11, day |-> 5, hour |-> m \div 60,
         minute |-> m % 60, second |-> 0, micro |-> utc.micro, offset |-> off]

\* str(dt.isoformat()) of an aware datetime: the fraction is printed only
\* when the microsecond is not zero, then the UTC offset as +HH:MM / -HH:MM.
isoformat_aware(dt) ==
    LET a == IF dt.offset < 0 THEN 0 - dt.offset ELSE dt.offset
    IN  Pad(dt.year, 4) \o <<"-">> \o Pad(dt.month, 2) \o <<"-">> \o Pad(dt.day, 2)
        \o <<"T">> \o Pad(dt.hour, 2) \o <<":">> \o Pad(dt.minute, 2)
        \o <<":">> \o Pad(dt.second, 2)
        \o (IF dt.micro = 0 THEN <<>> ELSE <<".">> \o Pad(dt.micro, 6))
        \o <<(IF dt.offset < 0 THEN "-" ELSE "+")>>
        \o Pad(a \div 60, 2) \o <<":">> \o Pad(a % 60, 2)

\* The timestamps of the clock readings, worked out once.
TimestampTable == [n \in 0..MaxTicks |-> isoformat_aware(astimezone(ClockAt(n)))]

\* str(dt.isoformat()) of utc_dt.astimezone(US/Central) for the reading clock.
datetime_now(clock) ==
    IF clock.micro \in DOMAIN TimestampTable /\ clock = ClockAt(clock.micro)
    THEN TimestampTable[clock.micro]
    ELSE isoformat_aware(astimezone(clock))

-----------------------------------------------------------------------------
(* Results of a call.                                                      *)

Return(v) == [kind |-> "return", val |-> v]
None      == [kind |-> "none", val |-> "None"]
Raise(e)  == [kind |-> "raise", val |-> e]

-----------------------------------------------------------------------------
(* The DynamoDB service, as the boto3 calls of the code see it.  db maps   *)
(* the name of each table to its key schema and its set of items.          *)

NoTables == <<>>

\* db.tables.all(): the names of the tables.
ListTables(db) == DOMAIN db

\* dynamodb.create_table(TableName, KeySchema, ...)
ServiceCreateTable(db, name, schema) ==
    [n \in DOMAIN db \cup {name} |->
        IF n = name THEN [KeySchema |-> schema, Items |-> {}] ELSE db[n]]

\* client.delete_table(TableName)
ServiceDeleteTable(db, name) == [n \in DOMAIN db \ {name} |-> db[n]]

SamePrimaryKey(schema, i, j) == \A a \in schema : i[a] = j[a]

\* Mutant of ServicePutItem: the item is added and none is replaced.
ServicePutItemAppend(db, name, item) ==
    IF name \notin DOMAIN db
    THEN [db |-> db, out |-> Raise("ResourceNotFoundException")]
    ELSE [db  |-> [db EXCEPT ![name].Items = @ \cup {item}],
          out |-> Return("ack")]

\* table.put_item(Item): a table the service does not have is an error; an
\* item with the primary key of a stored item replaces it.
ServicePutItem(db, name, item) ==
    IF name \notin DOMAIN db
    THEN [db |-> db, out |-> Raise("ResourceNotFoundException")]
    ELSE LET t    == db[name]
             kept == {i \in t.Items : ~SamePrimaryKey(t.KeySchema, i, item)}
         IN  [db  |-> [db EXCEPT ![name].Items = kept \cup {item}],
              out |-> Return("ack")]

RECURSIVE SortBySortKey(_, _)
\* The items of S in sort-key (datetime) order, ascending iff forward.
SortBySortKey(S, forward) ==
    IF S = {} THEN <<>>
    ELSE LET first == CHOOSE i \in S : \A j \in S :
                          IF forward THEN BytesLeq(i.datetime, j.datetime)
                          ELSE BytesLeq(j.datetime, i.datetime)
         IN  <<first>> \o SortBySortKey(S \ {first}, forward)

\* Mutant of KeyCondition: gt for gte.
KeyConditionGt(i, key, from) == i.key = key /\ ~BytesLeq(i.datetime, from)

\* Key('key').eq(key) [& Key('datetime').gte(from)]: from is <<>> when the
\* condition has no sort-key part (every timestamp is >= the empty string).
KeyCondition(i, key, from) == i.key = key /\ BytesLeq(from, i.datetime)

\* table.query(KeyConditionExpression, ScanIndexForward, Limit): limit 0
\* stands for no Limit.
ServiceQuery(db, name, key, from, forward, limit) ==
    IF name \notin DOMAIN db THEN Raise("ResourceNotFoundException")
    ELSE LET hit == {i \in db[name].Items : KeyCondition(i, key, from)}
             all == SortBySortKey(hit, forward)
             got == IF limit > 0 /\ Len(all) > limit THEN SubSeq(all, 1, limit) ELSE all
         IN  Return([Items |-> got, Count |-> Len(got)])

-----------------------------------------------------------------------------
(* DynamoDbDatabase.__init__                                               *)

DEV_ETL_NODE  == <<"d", "f", "h", "d", "p", "e", "t", "l", "0", "2">>
PROD_ETL_NODE == <<"d", "f", "h", "d", "p", "e", "t", "l", "0", "3">>

DevSuffix  == <<"_", "d", "e", "v">>
ProdSuffix == <<"_", "p", "r", "o", "d">>

\* Host names the process may run on.
HostNames ==
    { DEV_ETL_NODE \o <<".", "x">>,
      <<"x", "-">> \o PROD_ETL_NODE,
      <<"l", "o", "c", "a", "l", "h", "o", "s", "t">> }

\* self.suffix, from the host name.
SuffixOf(host) ==
    IF Contains(host, DEV_ETL_NODE) THEN DevSuffix
    ELSE IF Contains(host, PROD_ETL_NODE) THEN ProdSuffix
    ELSE DevSuffix

-----------------------------------------------------------------------------
(* DynamoDbTable                                                           *)

get_complete_name(table_name) ==
    IF endswith(table_name, suffix) THEN table_name ELSE table_name \o suffix

\* The Table resource: a handle on the name, made without asking the service.
get_table_resource(table_name) == [name |-> get_complete_name(table_name)]

\* `if table:` on a resource object, which defines neither __bool__ nor
\* __len__: true whether or not the service has the table.
Truthy(table) == TRUE

if_table_exists(db, table_name) == get_complete_name(table_name) \in ListTables(db)

\* The KeySchema create_table gives: partition key 'key', sort key 'datetime'.
KeySchema == {"key", "datetime"}

delete_table(db, table_name) ==
    LET complete_name == get_complete_name(table_name)
    IN  IF if_table_exists(db, table_name)
        THEN [db |-> ServiceDeleteTable(db, complete_name), out |-> None]
        ELSE [db |-> db, out |-> None]

create_table(db, table_name) ==
    LET table_name_low == lower(table_name)
        complete_name  == get_complete_name(table_name_low)
    IN  IF if_table_exists(db, table_name_low)
        THEN [db |-> db, out |-> None]
        ELSE [db  |-> ServiceCreateTable(db, complete_name, KeySchema),
              out |-> Return([name |-> complete_name])]

Item(key, datetime, value) ==
    [key |-> key, datetime |-> datetime, info |-> [value |-> value]]

put_item_into_table(db, clock, table_name, key, value) ==
    LET table_name_low == lower(table_name)
        complete_name  == get_complete_name(table_name_low)
        datetime_now_  == datetime_now(clock)
        table          == get_table_resource(complete_name)
    IN  IF Truthy(table)
        THEN ServicePutItem(db, table.name, Item(key, datetime_now_, value))
        ELSE [db |-> db, out |-> None]

\* Mutant of get_latest_item_value: ScanIndexForward left at its default.
get_latest_item_value_forward(db, table_name, key) ==
    LET response == ServiceQuery(db, get_complete_name(table_name), key, <<>>, TRUE, 1)
    IN  IF response.kind = "raise" THEN response
        ELSE IF response.val.Count = 0 THEN None
        ELSE Return(response.val.Items[1].info.value)

get_latest_item_value(db, table_name, key) ==
    LET complete_name == get_complete_name(table_name)
        table         == get_table_resource(complete_name)
    IN  IF Truthy(table)
        THEN LET response == ServiceQuery(db, table.name, key, <<>>, FALSE, 1)
             IN  IF response.kind = "raise" THEN response
                 ELSE IF response.val.Count = 0 THEN None
                 ELSE Return(response.val.Items[1].info.value)
        ELSE None

get_items_greater_than_date(db, table_name, key, yyyymmdd) ==
    LET complete_name == get_complete_name(table_name)
        d             == strptime(yyyymmdd)
    IN  IF ~d.ok THEN Raise("ValueError")
        ELSE LET from_yyyymmdd == isoformat_naive(d)
                 table         == get_table_resource(complete_name)
             IN  IF Truthy(table)
                 THEN LET response == ServiceQuery(db, table.name, key, from_yyyymmdd, FALSE, 0)
                      IN  IF response.kind = "raise" THEN response
                          ELSE IF response.val.Count = 0 THEN None
                          ELSE Return(response.val.Items)
                 ELSE None

NoCsv == [written |-> FALSE, rows |-> <<>>]

CsvHeader == <<"table", "key", "value", "datetime_yyyymmdd">>

\* One pass of the loop over the rows of the file: row[0] of the code is
\* row[1] here.  A field the row does not have is an IndexError.
ImportRow(db, row) ==
    IF Len(row) < 1 THEN [db |-> db, out |-> Raise("IndexError")]
    ELSE LET table == row[1] \o suffix
             db1   == IF ~if_table_exists(db, table) THEN create_table(db, table).db ELSE db
         IN  IF Len(row) < 4 THEN [db |-> db1, out |-> Raise("IndexError")]
             ELSE LET d == strptime(row[4])
                  IN  IF ~d.ok THEN [db |-> db1, out |-> Raise("ValueError")]
                      ELSE ServicePutItem(db1, get_table_resource(table).name,
                                          Item(row[2], isoformat_naive(d), row[3]))

RECURSIVE ImportFromSkipping(_, _, _)
\* Mutant of ImportFrom: a row that raises is skipped and the loop goes on.
ImportFromSkipping(db, rows, i) ==
    IF i > Len(rows) THEN [db |-> db, out |-> None]
    ELSE LET r == ImportRow(db, rows[i])
         IN  ImportFromSkipping(r.db, rows, i + 1)

RECURSIVE ImportFrom(_, _, _)
\* The loop from row i on: an error ends it and leaves what was written.
ImportFrom(db, rows, i) ==
    IF i > Len(rows) THEN [db |-> db, out |-> None]
    ELSE LET r == ImportRow(db, rows[i])
         IN  IF r.out.kind = "raise" THEN r ELSE ImportFrom(r.db, rows, i + 1)

import_data_from_csv(db, rows) == ImportFrom(db, rows, 1)

\* Mutant of export_data_to_csv: each data row carries its own item.
export_each_item(db, table_name, key) ==
    LET complete_name == get_complete_name(table_name)
        response      == ServiceQuery(db, complete_name, key, <<>>, FALSE, 0)
    IN  IF response.kind = "raise" THEN [out |-> response, csv |-> NoCsv]
        ELSE IF response.val.Count = 0 THEN [out |-> None, csv |-> NoCsv]
        ELSE LET data == [x \in 1..response.val.Count |->
                            <<complete_name,
                              response.val.Items[x].key,
                              response.val.Items[x].info.value,
                              response.val.Items[x].datetime>>]
             IN  [out |-> None,
                  csv |-> [written |-> TRUE, rows |-> <<CsvHeader>> \o data]]

\* The result of the call and the file it writes (header, then the rows).
export_data_to_csv(db, table_name, key) ==
    LET complete_name == get_complete_name(table_name)
        table         == get_table_resource(complete_name)
    IN  IF Truthy(table)
        THEN LET response == ServiceQuery(db, table.name, key, <<>>, FALSE, 0)
             IN  IF response.kind = "raise" THEN [out |-> response, csv |-> NoCsv]
                 ELSE IF response.val.Count = 0 THEN [out |-> None, csv |-> NoCsv]
                 ELSE LET count == response.val.Count
                          data  == [x \in 1..count |->
                                      <<complete_name,
                                        response.val.Items[1].key,
                                        response.val.Items[1].info.value,
                                        response.val.Items[1].datetime>>]
                      IN  [out |-> None,
                           csv |-> [written |-> TRUE, rows |-> <<CsvHeader>> \o data]]
        ELSE [out |-> None, csv |-> NoCsv]

-----------------------------------------------------------------------------
(* Inputs of the calls.                                                    *)

\* Logical table names: lower case, upper case, already carrying the suffix.
TableNames == {<<"a">>, <<"A">>, <<"a">> \o suffix}

Keys   == {"k1", "k2"}
Values == {"v1", "v2"}

\* The rows CSV files are made of: four fields, fewer, and more.
CsvRows ==
    { <<<<"a">>, "k1", "v1", D1104>>,
      <<<<"a">>, "k1", "v2", D1106>>,
      <<<<"a">>, "k1", "v2", DShort>>,
      <<<<"A">>, "k1", "v1", D1104>>,
      <<<<"a">> \o suffix, "k1", "v1", D1104>>,
      <<<<"a">>, "k1", "v1", DNoSuch>>,
      <<<<"a">>, "k1", "v1", D1104, "x">>,
      <<<<"a">>, "k1">>,
      <<>> }

RECURSIVE SeqsUpTo(_, _)
\* The sequences over S of length at most n.
SeqsUpTo(S, n) ==
    IF n = 0 THEN {<<>>}
    ELSE LET shorter == SeqsUpTo(S, n - 1)
         IN  shorter \cup {Append(f, x) : f \in shorter, x \in S}

CsvFiles == SeqsUpTo(CsvRows, MaxRows)

QueryDates == {D1105, D1106, DDashed}

RECURSIVE SumOver(_, _)
SumOver(S, db) ==
    IF S = {} THEN 0
    ELSE LET n == CHOOSE n \in S : TRUE
         IN  Cardinality(db[n].Items) + SumOver(S \ {n}, db)

TotalItems(db) == SumOver(DOMAIN db, db)

-----------------------------------------------------------------------------
(* The client and the service as a state machine.  Each action is one call *)
(* of the client.  The calls that read (if_table_exists, the two queries,  *)
(* and export_data_to_csv, which writes a file the client never reads)     *)
(* leave every variable as it is: what they return is the operator of the  *)
(* same name applied to the tables of the state.  resolved is the last     *)
(* name a caller gave get_complete_name and what came back.                *)

NotResolved == [arg |-> <<>>, out |-> <<>>, called |-> FALSE]

\* The store is explored on the development node; the suffix enters it only
\* through the names, which SpecNames explores on every host.
StoreHost == DEV_ETL_NODE \o <<".", "x">>

Init ==
    /\ suffix = SuffixOf(StoreHost)
    /\ tables = NoTables
    /\ now = ClockStart
    /\ resolved = NotResolved

\* Time passes between calls.
Tick ==
    /\ \E n \in 0..(MaxTicks - 1) : now = ClockAt(n) /\ now' = ClockAt(n + 1)
    /\ UNCHANGED <<suffix, tables, resolved>>

CreateTable ==
    \E t \in TableNames :
        /\ tables' = create_table(tables, t).db
        /\ UNCHANGED <<suffix, now, resolved>>

DeleteTable ==
    \E t \in TableNames :
        /\ tables' = delete_table(tables, t).db
        /\ UNCHANGED <<suffix, now, resolved>>

PutItem ==
    \E t \in TableNames, k \in Keys, v \in Values :
        LET r == put_item_into_table(tables, now, t, k, v)
        IN  /\ TotalItems(r.db) <= MaxItems
            /\ tables' = r.db
            /\ UNCHANGED <<suffix, now, resolved>>

ImportFromCsv ==
    \E rows \in CsvFiles :
        LET r == import_data_from_csv(tables, rows)
        IN  /\ TotalItems(r.db) <= MaxItems
            /\ tables' = r.db
            /\ UNCHANGED <<suffix, now, resolved>>

Outcomes == {"return", "none", "raise"}

TableExists ==
    \E t \in TableNames :
        /\ if_table_exists(tables, t) \in BOOLEAN
        /\ UNCHANGED vars

GetLatestItemValue ==
    \E t \in TableNames, k \in Keys :
        /\ get_latest_item_value(tables, t, k).kind \in Outcomes
        /\ UNCHANGED vars

GetItemsGreaterThanDate ==
    \E t \in TableNames, k \in Keys, D \in QueryDates :
        /\ get_items_greater_than_date(tables, t, k, D).kind \in Outcomes
        /\ UNCHANGED vars

ExportToCsv ==
    \E t \in TableNames, k \in Keys :
        /\ export_data_to_csv(tables, t, k).out.kind \in Outcomes
        /\ UNCHANGED vars

Next ==
    \/ Tick
    \/ CreateTable
    \/ DeleteTable
    \/ PutItem
    \/ ImportFromCsv
    \/ TableExists
    \/ GetLatestItemValue
    \/ GetItemsGreaterThanDate
    \/ ExportToCsv

Spec == Init /\ [][Next]_vars

-----------------------------------------------------------------------------
(* get_complete_name on its own, on every host: the names it is given are  *)
(* a lead of up to MaxLead characters followed by a tail that is, nearly   *)
(* is, or holds a suffix.                                                  *)

NameTails ==
    { <<>>, DevSuffix, ProdSuffix, DevSuffix \o DevSuffix, DevSuffix \o ProdSuffix,
      ProdSuffix \o DevSuffix, DevSuffix \o <<"x">>, ProdSuffix \o <<"x">>,
      <<"d", "e", "v">>, <<"_", "d", "e">>, <<"_", "D", "E", "V">>, <<"p", "r", "o", "d">> }

ResolveNames == {lead \o tail : lead \in SeqsUpTo({"a", "_"}, MaxLead), tail \in NameTails}

InitNames ==
    /\ \E host \in HostNames : suffix = SuffixOf(host)
    /\ tables = NoTables
    /\ now = ClockStart
    /\ resolved = NotResolved

Resolve ==
    \E t \in ResolveNames :
        /\ resolved' = [arg |-> t, out |-> get_complete_name(t), called |-> TRUE]
        /\ UNCHANGED <<suffix, tables, now>>

NextNames == Resolve

SpecNames == InitNames /\ [][NextNames]_vars

-----------------------------------------------------------------------------
(* What the claims speak of.                                               *)

\* The items the service holds in the table named n.
ItemsAt(db, n) == IF n \in DOMAIN db THEN db[n].Items ELSE {}

ItemsUnder(db, n, k) == {i \in ItemsAt(db, n) : i.key = k}

\* The item of S with the greatest datetime.
Greatest(S) == CHOOSE i \in S : \A j \in S : BytesLeq(j.datetime, i.datetime)

\* YYYYMMDD: eight digits that name a calendar date.
IsYYYYMMDD(s) == Len(s) = 8 /\ (\A i \in 1..8 : IsDigit(s[i])) /\ strptime(s).ok

\* The ISO-8601 form of the date YYYYMMDD at zero time of day.
IsoOfYYYYMMDD(D) ==
    <<D[1], D[2], D[3], D[4], "-", D[5], D[6], "-", D[7], D[8],
      "T", "0", "0", ":", "0", "0", ":", "0", "0">>

\* t is a name followed by the active suffix.
EndsWithSuffix(t) == \E n \in 0..Len(t) : t = SubSeq(t, 1, n) \o suffix

\* The (table, key, datetime) triples the service holds an item for.
PrimaryKeys(db) == UNION {{<<n, i.key, i.datetime>> : i \in db[n].Items} : n \in DOMAIN db}

\* The table, key and datetime a four-field row is written under.
RowKey(row) == <<row[1] \o suffix, row[2], isoformat_naive(strptime(row[4]))>>

\* A row as the file format describes it.
WellFormedRow(row) == Len(row) = 4 /\ IsYYYYMMDD(row[4])

\* The import of the first n rows of a file.
ImportPrefix(db, rows, n) == import_data_from_csv(db, SubSeq(rows, 1, n))

\* The import of rows comes to row i: the rows before it raise nothing.
Meets(db, rows, i) == i \in 1..Len(rows) /\ ImportPrefix(db, rows, i - 1).out.kind # "raise"

\* The import of rows stops with an error at row i: the items are those the
\* rows before i left.
AbortsAt(db, rows, i) ==
    LET r    == import_data_from_csv(db, rows)
        upto == ImportPrefix(db, rows, i - 1)
    IN  /\ r.out.kind = "raise"
        /\ \A n \in DOMAIN r.db \cup DOMAIN upto.db : ItemsAt(r.db, n) = ItemsAt(upto.db, n)

-----------------------------------------------------------------------------
(* The claims.                                                             *)

\* C1: from every reachable state in which the table for t exists,
\* putItem(t, k, v) followed at once by getLatestItemValue(t, k) returns v.
C1_PutThenGetLatest ==
    \A t \in TableNames, k \in Keys, v \in Values :
        if_table_exists(tables, t) =>
            get_latest_item_value(put_item_into_table(tables, now, t, k, v).db, t, k)
                = Return(v)

\* C2: right after createTable(t), tableExists(t) is true; right after
\* deleteTable(t), tableExists(t) is false.
C2_CreateDeleteThenExists ==
    \A t \in TableNames :
        /\ if_table_exists(create_table(tables, t).db, t)
        /\ ~if_table_exists(delete_table(tables, t).db, t)

\* The value of the row of the file for (b, k) with the greatest date (the
\* last such row, should two carry that date).
LatestRowValue(rows, b, k) ==
    LET mine == {j \in 1..Len(rows) : rows[j][1] = b /\ rows[j][2] = k}
        top  == {j \in mine : \A h \in mine : Num(rows[h][4]) <= Num(rows[j][4])}
    IN  rows[CHOOSE j \in top : \A h \in top : h <= j][3]

\* C3: from an empty store, after importFromCsv of a file of well-formed
\* rows, getLatestItemValue(b, k) returns, for every table base name b and
\* key k of the file, the value of the row for (b, k) with the greatest date.
C3_ImportThenGetLatest ==
    tables = NoTables =>
        \A rows \in CsvFiles :
            (\A i \in 1..Len(rows) : WellFormedRow(rows[i])) =>
                LET r == import_data_from_csv(tables, rows)
                IN  /\ r.out.kind # "raise"
                    /\ \A i \in 1..Len(rows) :
                           get_latest_item_value(r.db, rows[i][1], rows[i][2])
                               = Return(LatestRowValue(rows, rows[i][1], rows[i][2]))

\* C4: when the table for the name does not exist, putItem writes nothing,
\* raises nothing and returns nothing, and getLatestItemValue and
\* getItemsGreaterThanDate return nothing and raise nothing.
C4_MissingTableIsQuiet ==
    \A t \in TableNames, k \in Keys :
        /\ get_complete_name(lower(t)) \notin DOMAIN tables =>
               \A v \in Values :
                   LET r == put_item_into_table(tables, now, t, k, v)
                   IN  r.out.kind = "none" /\ r.db = tables
        /\ get_complete_name(t) \notin DOMAIN tables =>
               /\ get_latest_item_value(tables, t, k).kind = "none"
               /\ \A D \in QueryDates :
                      IsYYYYMMDD(D) =>
                          get_items_greater_than_date(tables, t, k, D).kind = "none"

\* C5: for every existing table t, key k and date D (YYYYMMDD),
\* getItemsGreaterThanDate(t, k, D) returns exactly the items under k whose
\* datetime is bytewise >= the ISO form of D at zero time of day, in
\* descending order of datetime, and nothing when there is none.
C5_ItemsGreaterThanDate ==
    \A t \in TableNames, k \in Keys, D \in QueryDates :
        (if_table_exists(tables, t) /\ IsYYYYMMDD(D)) =>
            LET want == {i \in ItemsUnder(tables, get_complete_name(t), k) :
                            BytesLeq(IsoOfYYYYMMDD(D), i.datetime)}
                r    == get_items_greater_than_date(tables, t, k, D)
            IN  IF want = {} THEN r.kind = "none"
                ELSE /\ r.kind = "return"
                     /\ Len(r.val) = Cardinality(want)
                     /\ {r.val[x] : x \in 1..Len(r.val)} = want
                     /\ \A x \in 1..(Len(r.val) - 1) :
                            /\ r.val[x].datetime # r.val[x + 1].datetime
                            /\ BytesLeq(r.val[x + 1].datetime, r.val[x].datetime)

\* C5 witness: a key holds an item written by putItem (with an offset) and
\* an imported one (without); the query from one date returns both, and from
\* a later date returns one and leaves the other out.
C5_Witness ==
    \E t \in TableNames, k \in Keys, D, E \in QueryDates :
        /\ if_table_exists(tables, t) /\ IsYYYYMMDD(D) /\ IsYYYYMMDD(E)
        /\ LET r == get_items_greater_than_date(tables, t, k, D)
               q == get_items_greater_than_date(tables, t, k, E)
           IN  /\ r.kind = "return" /\ q.kind = "return"
               /\ Len(r.val) = 2 /\ Len(q.val) = 1
               /\ \E x, y \in 1..2 :
                      Len(r.val[x].datetime) > 19 /\ Len(r.val[y].datetime) = 19

\* C6: when table t holds at least two items with different datetimes under
\* k, however they were written, getLatestItemValue(t, k) returns the value
\* of the one with the greatest datetime.
C6_LatestIsGreatestDatetime ==
    \A t \in TableNames, k \in Keys :
        LET S == ItemsUnder(tables, get_complete_name(t), k)
        IN  (\E i, j \in S : i.datetime # j.datetime) =>
                get_latest_item_value(tables, t, k) = Return(Greatest(S).info.value)

\* C6 witness: a key holds an item put and an item imported,
\* with different values, and the query returns the later one's value.
C6_Witness ==
    \E t \in TableNames, k \in Keys :
        LET S == ItemsUnder(tables, get_complete_name(t), k)
        IN  /\ \E i, j \in S : /\ Len(i.datetime) > 19 /\ Len(j.datetime) = 19
                               /\ i.info.value # j.info.value
            /\ get_latest_item_value(tables, t, k) = Return(Greatest(S).info.value)

\* C7: every table holds at most one item per (key, datetime); a write under
\* a (key, datetime) that is stored replaces the value and adds no item, and
\* the value kept is the one written last.
C7_OneItemPerKeyAndDatetime ==
    /\ \A n \in DOMAIN tables : \A i, j \in tables[n].Items :
           (i.key = j.key /\ i.datetime = j.datetime) => i = j
    /\ \A t \in TableNames, k \in Keys, v \in Values :
           LET r  == put_item_into_table(tables, now, t, k, v)
               pk == <<get_complete_name(lower(t)), k, datetime_now(now)>>
           IN  r.out.kind = "return" =>
                   /\ {i \in ItemsAt(r.db, pk[1]) : i.key = k /\ i.datetime = pk[3]}
                          = {Item(k, pk[3], v)}
                   /\ PrimaryKeys(r.db) = PrimaryKeys(tables) \cup {pk}
                   /\ pk \in PrimaryKeys(tables) => TotalItems(r.db) = TotalItems(tables)
    /\ \A rows \in CsvFiles :
           LET r == import_data_from_csv(tables, rows)
           IN  r.out.kind # "raise" =>
                   /\ \A i \in 1..Len(rows) :
                          LET pk   == RowKey(rows[i])
                              same == {j \in 1..Len(rows) : RowKey(rows[j]) = pk}
                              lst  == CHOOSE j \in same : \A h \in same : h <= j
                          IN  {x \in ItemsAt(r.db, pk[1]) : x.key = pk[2] /\ x.datetime = pk[3]}
                                  = {Item(pk[2], pk[3], rows[lst][3])}
                   /\ PrimaryKeys(r.db) = PrimaryKeys(tables)
                          \cup {RowKey(rows[i]) : i \in 1..Len(rows)}
                   /\ TotalItems(r.db) = Cardinality(PrimaryKeys(r.db))

\* C7 witness: an item is stored under a key and the datetime of the clock;
\* putItem under that key with another value succeeds, leaves the item count
\* as it is and the new value in place of the old.
C7_Witness ==
    \E t \in TableNames, k \in Keys, v \in Values :
        LET r == put_item_into_table(tables, now, t, k, v)
            n == get_complete_name(lower(t))
        IN  /\ \E i \in ItemsAt(tables, n) :
                   /\ i.key = k /\ i.datetime = datetime_now(now) /\ i.info.value # v
                   /\ i \notin ItemsAt(r.db, n)
            /\ r.out.kind = "return"
            /\ TotalItems(r.db) = TotalItems(tables)
            /\ Item(k, datetime_now(now), v) \in ItemsAt(r.db, n)

\* C8, as first stated: when importFromCsv meets a row with a column count
\* other than four or a date not in YYYYMMDD form, it raises, writes nothing
\* for that row or a later one, and keeps what the rows before it wrote.
C8_MalformedRowAborts ==
    \A rows \in CsvFiles : \A i \in 1..Len(rows) :
        (~WellFormedRow(rows[i]) /\ Meets(tables, rows, i)) => AbortsAt(tables, rows, i)

\* A row the code cannot take: fewer than four fields, or a date field that
\* strptime with '%Y%m%d' rejects.
RejectedRow(row) == Len(row) < 4 \/ ~strptime(row[4]).ok

\* C8, amended: when importFromCsv meets a row with fewer than four fields or
\* a date field that strptime with '%Y%m%d' rejects, it raises, writes nothing
\* for that row or a later one, and keeps what the rows before it wrote.
C8_RejectedRowAborts ==
    \A rows \in CsvFiles : \A i \in 1..Len(rows) :
        (RejectedRow(rows[i]) /\ Meets(tables, rows, i)) => AbortsAt(tables, rows, i)

\* C8 witness: with items stored, an import writes its first row, meets a
\* rejected second row and raises; the first row's item is kept.
C8_Witness ==
    /\ TotalItems(tables) > 0
    /\ \E rows \in CsvFiles :
           /\ Len(rows) = 2 /\ WellFormedRow(rows[1]) /\ RejectedRow(rows[2])
           /\ Meets(tables, rows, 2)
           /\ LET r == import_data_from_csv(tables, rows)
              IN  /\ r.out.kind = "raise"
                  /\ RowKey(rows[1]) \in PrimaryKeys(r.db) \ PrimaryKeys(tables)
                  /\ PrimaryKeys(tables) \subseteq PrimaryKeys(r.db)

\* C9: for a table t and key k with N >= 1 items, exportToCsv writes the
\* header and N data rows, each carrying the complete table name and the key,
\* value and datetime of the item with the greatest datetime; with N = 0 it
\* writes no file.
C9_ExportRepeatsFirstItem ==
    \A t \in TableNames, k \in Keys :
        if_table_exists(tables, t) =>
            LET S == ItemsUnder(tables, get_complete_name(t), k)
                N == Cardinality(S)
                r == export_data_to_csv(tables, t, k)
            IN  IF N = 0 THEN ~r.csv.written
                ELSE /\ r.csv.written
                     /\ Len(r.csv.rows) = N + 1
                     /\ r.csv.rows[1] = CsvHeader
                     /\ \A x \in 2..(N + 1) :
                            r.csv.rows[x] = <<get_complete_name(t), Greatest(S).key,
                                              Greatest(S).info.value, Greatest(S).datetime>>

\* C9 witness: a key holds two items with different values, and the export
\* writes a header and two equal data rows.
C9_Witness ==
    \E t \in TableNames, k \in Keys :
        LET S == ItemsUnder(tables, get_complete_name(t), k)
            r == export_data_to_csv(tables, t, k)
        IN  /\ \E i, j \in S : i.info.value # j.info.value
            /\ r.csv.written
            /\ Len(r.csv.rows) = 3
            /\ r.csv.rows[2] = r.csv.rows[3]

\* C10: get_complete_name(t) is t when t ends with the active suffix and t
\* followed by the suffix otherwise, and applying it twice changes nothing
\* more.
C10_CompleteName ==
    resolved.called =>
        /\ EndsWithSuffix(resolved.arg) => resolved.out = resolved.arg
        /\ ~EndsWithSuffix(resolved.arg) => resolved.out = resolved.arg \o suffix
        /\ get_complete_name(resolved.out) = resolved.out

\* C10 witness: the name given ends with the active suffix after a lead and
\* comes back as it is.
C10_Witness ==
    /\ resolved.called
    /\ Len(resolved.arg) > Len(suffix)
    /\ EndsWithSuffix(resolved.arg)
    /\ resolved.out = resolved.arg

====
